---- MODULE Spec2Model ----
(***************************************************************************)
(* Model of the posts REST API (src/posts/api.py): five Flask endpoints    *)
(* over one SQLAlchemy session, wrapped by the accept/require decorators   *)
(* and the JSON-Schema validation of the request body.                     *)
(*                                                                         *)
(* Conventions.  An optional value (a header, a query argument, a Location *)
(* header) is a sequence of length 0 (absent) or 1 (present).  A text is a *)
(* sequence of one-character strings.  A request is handled to completion  *)
(* in one step (requests are served one at a time); req and resp hold the  *)
(* request being answered and its response until the client has it.        *)
(***************************************************************************)
EXTENDS Integers, Sequences, FiniteSets, TLC

VARIABLES rows,       \* the posts table as the session's transaction sees it: id -> [title, body]
          deleted,    \* ids of loaded posts marked by session.delete(), not yet flushed
          committed,  \* the posts table as of the last session.commit()
          nextId,     \* the next id the store generates
          req,        \* the request being answered (NoRequest when idle)
          resp,       \* the response to it (NoResponse when idle)
          before      \* the session state in which the request arrived

vars == <<rows, deleted, committed, nextId, req, resp, before>>

\* Largest id the store hands out (caps the id counter).
MaxId == 2

Ids == 1..MaxId

----------------------------------------------------------------------------
(* Values of requests *)

None == <<>>
Some(x) == <<x>>

MediaType(t, s) == [type |-> t, subtype |-> s]
ApplicationJson == MediaType("application", "json")

\* Accept headers tried: absent, or a comma-separated list of patterns.
AcceptHeaders ==
    { None,
      Some(<<MediaType("application", "json")>>),
      Some(<<MediaType("application", "*")>>),
      Some(<<MediaType("*", "*")>>),
      Some(<<MediaType("application", "xml")>>),
      Some(<<MediaType("application", "xml"), MediaType("application", "json")>>),
      Some(<<MediaType("text", "html"), MediaType("text", "*")>>) }

\* Content-Type headers tried: absent, or a media type with its parameters.
ContentTypes ==
    { None,
      Some([type |-> "application", subtype |-> "json", params |-> ""]),
      Some([type |-> "application", subtype |-> "json", params |-> "charset=utf-8"]),
      Some([type |-> "text", subtype |-> "plain", params |-> ""]) }

\* Values of the query arguments title_like and content_like.
LikeArgs == { None, Some(<<>>), Some(<<"b">>), Some(<<"B">>), Some(<<"%">>) }

\* A member of a decoded JSON object: absent, a number, or a string.
Absent == [kind |-> "absent", str |-> <<>>]
Number == [kind |-> "number", str |-> <<>>]
String(t) == [kind |-> "string", str |-> t]

\* request.json: a JSON object with (possibly) title and body, or a value
\* that is not an object (an array, null).
Object(t, b) == [kind |-> "object", title |-> t, body |-> b]
NotObject(k) == [kind |-> k, title |-> Absent, body |-> Absent]
JsonBodies ==
    { Object(String(<<"a", "b">>), String(<<"B">>)),
      Object(String(<<"B">>), String(<<"a", "b">>)),
      Object(String(<<"B">>), String(<<"B">>)) }
    \cup { Object(m, String(<<"B">>)) : m \in {Absent, Number} }
    \cup { Object(String(<<"B">>), m) : m \in {Absent, Number} }
    \cup { Object(Absent, Absent), Object(Number, Absent) }
    \cup { NotObject("array"), NotObject("null") }

Request(m, id, a, c, d, tl, cl) ==
    [method |-> m, id |-> id, accept |-> a, ctype |-> c, data |-> d,
     title_like |-> tl, content_like |-> cl]

NoRequest == Request("NONE", 0, None, None, NotObject("null"), None, None)

----------------------------------------------------------------------------
(* Responses *)

\* "....{}....".format(arg)
Format(fmt, arg) == [fmt |-> fmt, arg |-> arg]

\* Response(data, status, headers, mimetype="application/json")
Response(kind, status, message, posts, location) ==
    [status |-> status, mimetype |-> "application/json", kind |-> kind,
     message |-> message, posts |-> posts, location |-> location]

MessageResponse(status, msg) == Response("message", status, Some(msg), <<>>, None)

NoResponse ==
    [status |-> 0, mimetype |-> "", kind |-> "none",
     message |-> None, posts |-> <<>>, location |-> None]

\* An exception that leaves the view function: Flask answers 500 with its
\* HTML error page.
InternalServerError ==
    [status |-> 500, mimetype |-> "text/html", kind |-> "html",
     message |-> None, posts |-> <<>>, location |-> None]

Outcome(r, s) == [resp |-> r, st |-> s]

----------------------------------------------------------------------------
(* The SQLAlchemy session (posts.database.session), as api.py uses it *)

State == [rows |-> rows, deleted |-> deleted, committed |-> committed, nextId |-> nextId]

EmptyTable == [i \in {} |-> [title |-> <<>>, body |-> <<>>]]

Restrict(f, S) == [i \in S |-> f[i]]

\* The flush a query runs first (autoflush): the DELETEs of the marked posts
\* are emitted in the open transaction.
autoflush(s) ==
    [s EXCEPT !.rows = Restrict(s.rows, DOMAIN s.rows \ s.deleted), !.deleted = {}]

\* session.query(models.Post).get(id): an object the session holds (a post
\* marked deleted is still held until the flush) is returned without a query;
\* otherwise the SELECT runs, after the autoflush.
query_get(s, id) ==
    IF id \in s.deleted
    THEN [found |-> TRUE, st |-> s]
    ELSE LET f == autoflush(s) IN [found |-> id \in DOMAIN f.rows, st |-> f]

\* session.delete(post)
session_delete(s, id) == [s EXCEPT !.deleted = @ \cup {id}]

\* session.add(post) for a post already loaded: it is kept, and a pending
\* deletion of it is cancelled.
session_add(s, id) == [s EXCEPT !.deleted = @ \ {id}]

\* session.add(models.Post(title, body)) and the INSERT of the next flush: the
\* store generates the id.
session_add_new(s, title, body) ==
    [s EXCEPT !.rows = [i \in DOMAIN s.rows \cup {s.nextId} |->
                          IF i = s.nextId THEN [title |-> title, body |-> body]
                          ELSE s.rows[i]],
              !.nextId = @ + 1]

\* session.commit(): flush, then make the transaction durable.
session_commit(s) ==
    LET f == autoflush(s) IN [f EXCEPT !.committed = f.rows]

\* post.as_dictionary()
as_dictionary(s, id) == [id |-> id, title |-> s.rows[id].title, body |-> s.rows[id].body]

\* The ids of S in ascending order (ORDER BY id).
RECURSIVE order_by_id(_)
order_by_id(S) ==
    IF S = {} THEN <<>>
    ELSE LET m == CHOOSE x \in S : \A y \in S : x <= y
         IN <<m>> \o order_by_id(S \ {m})

\* SQL's  text LIKE pattern : % matches any run of characters, _ any one.
RECURSIVE Like(_, _)
Like(text, pattern) ==
    IF pattern = <<>> THEN text = <<>>
    ELSE IF Head(pattern) = "%"
         THEN Like(text, Tail(pattern)) \/ (text # <<>> /\ Like(Tail(text), pattern))
         ELSE /\ text # <<>>
              /\ (Head(pattern) = "_" \/ Head(pattern) = Head(text))
              /\ Like(Tail(text), Tail(pattern))

\* column.contains(other): column LIKE '%' || other || '%', other not escaped.
contains(column, other) == Like(column, <<"%">> \o other \o <<"%">>)

----------------------------------------------------------------------------
(* posts.decorators *)

\* Whether the pattern of an Accept header matches the media type.
Matches(pattern, mimetype) ==
    \/ pattern = mimetype
    \/ pattern.type = mimetype.type /\ pattern.subtype = "*"
    \/ pattern.type = "*" /\ pattern.subtype = "*"

\* mimetype in request.accept_mimetypes; no header matches everything.
Accepts(accept, mimetype) ==
    \/ accept = None
    \/ \E i \in 1..Len(accept[1]) : Matches(accept[1][i], mimetype)

\* request.mimetype == mimetype (the parameters are not compared)
MimetypeIs(ctype, mimetype) ==
    /\ ctype # None
    /\ ctype[1].type = mimetype.type
    /\ ctype[1].subtype = mimetype.subtype

\* @decorators.accept("application/json") around a view whose outcomes are inner
accept(s, r, inner) ==
    IF Accepts(r.accept, ApplicationJson) THEN inner
    ELSE { Outcome(MessageResponse(406,
               Format("Request must accept {} data", "application/json")), s) }

\* @decorators.require("application/json") around a view whose outcomes are inner
require(s, r, inner) ==
    IF MimetypeIs(r.ctype, ApplicationJson) THEN inner
    ELSE { Outcome(MessageResponse(415,
               Format("Request must contain {} data", "application/json")), s) }

----------------------------------------------------------------------------
(* JSON Schema describing the structure of a post, and jsonschema.validate *)

\* post_schema with "body" left out of "required".
post_schema_title_only ==
    [properties |-> [title |-> "string", body |-> "string"],
     required   |-> {"title"}]

post_schema ==
    [properties |-> [title |-> "string", body |-> "string"],
     required   |-> {"title", "body"}]

\* The messages of the ValidationErrors of data against schema; "required" and
\* "properties" constrain objects only.  validate raises one of them.
ValidationErrors(data, schema) ==
    IF data.kind # "object" THEN {}
    ELSE { Format("{} is a required property", k) :
             k \in { k \in schema.required : data[k].kind = "absent" } }
         \cup
         { Format("{} is not of type 'string'", data[k].kind) :
             k \in { k \in DOMAIN schema.properties :
                       data[k].kind \notin {"absent", schema.properties[k]} } }

----------------------------------------------------------------------------
(* The views of api.py.  Each gives the set of outcomes (response and       *)
(* session state) of request r in session state s.                          *)

\* The posts a list request selects, in the order of the response.
posts_query(s, r) ==
    LET title_like   == r.title_like
        content_like == r.content_like
        \* if title_like: / if content_like:  (an empty argument is falsy)
        selected == { i \in DOMAIN s.rows :
                        /\ (title_like # None /\ title_like[1] # <<>>)
                              => contains(s.rows[i].title, title_like[1])
                        /\ (content_like # None /\ content_like[1] # <<>>)
                              => contains(s.rows[i].body, content_like[1]) }
    IN  order_by_id(selected)

\* posts_get without its accept decorator.
posts_get_unguarded(s, r) ==
    LET f   == autoflush(s)
        ids == posts_query(f, r)
    IN  { Outcome(Response("array", 200, None,
                           [k \in 1..Len(ids) |-> as_dictionary(f, ids[k])], None), f) }

\* GET /api/posts
posts_get(s, r) ==
    accept(s, r,
      LET f   == autoflush(s)
          ids == posts_query(f, r)
      IN  { Outcome(Response("array", 200, None,
                             [k \in 1..Len(ids) |-> as_dictionary(f, ids[k])], None), f) })

\* GET /api/posts/<int:id>
post_get(s, r) ==
    accept(s, r,
      LET g == query_get(s, r.id)
      IN  IF ~g.found
          THEN { Outcome(MessageResponse(404,
                     Format("Could not find post with id {}", ToString(r.id))), g.st) }
          ELSE { Outcome(Response("object", 200, None,
                                  <<as_dictionary(g.st, r.id)>>, None), g.st) })

\* DELETE /api/posts/<int:id>
post_delete(s, r) ==
    accept(s, r,
      LET g == query_get(s, r.id)
      IN  IF ~g.found
          THEN { Outcome(MessageResponse(404,
                     Format("Could not find post with id {}", ToString(r.id))), g.st) }
          ELSE { Outcome(MessageResponse(200,
                     Format("Deleted post with id {}", ToString(r.id))),
                         session_delete(g.st, r.id)) })

\* posts_post adding and committing the post before it validates the body.
posts_post_view_commit_first(s, r) ==
    LET data   == r.data
        errors == ValidationErrors(data, post_schema)
        t      == session_commit(session_add_new(s, data.title.str, data.body.str))
    IN  IF errors # {}
        THEN { Outcome(MessageResponse(422, e), t) : e \in errors }
        ELSE IF data.kind # "object"
        THEN { Outcome(InternalServerError, s) }
        ELSE { Outcome(Response("object", 201, None,
                                <<as_dictionary(t, s.nextId)>>, Some(s.nextId)), t) }

\* posts_post storing the body as the title and the title as the body.
posts_post_view_swapped(s, r) ==
    LET data   == r.data
        errors == ValidationErrors(data, post_schema)
    IN  IF errors # {}
        THEN { Outcome(MessageResponse(422, e), s) : e \in errors }
        ELSE IF data.kind # "object"
        THEN { Outcome(InternalServerError, s) }
        ELSE LET t == session_commit(session_add_new(s, data.body.str, data.title.str))
             IN  { Outcome(Response("object", 201, None,
                                    <<as_dictionary(t, s.nextId)>>, Some(s.nextId)), t) }

\* The body of posts_post, below its decorators.
posts_post_view(s, r) ==
    LET data   == r.data
        errors == ValidationErrors(data, post_schema)
    IN  IF errors # {}
        THEN { Outcome(MessageResponse(422, e), s) : e \in errors }
        ELSE IF data.kind # "object"
        THEN \* data["title"] raises TypeError
             { Outcome(InternalServerError, s) }
        ELSE LET t == session_commit(session_add_new(s, data.title.str, data.body.str))
             IN  { Outcome(Response("object", 201, None,
                                    <<as_dictionary(t, s.nextId)>>, Some(s.nextId)), t) }

\* posts_post with its two decorators in the other order.
posts_post_require_first(s, r) == require(s, r, accept(s, r, posts_post_view(s, r)))

\* POST /api/posts
posts_post(s, r) == accept(s, r, require(s, r, posts_post_view(s, r)))

\* post_put assigning the title to post.body and the body to post.title.
post_put_view_swapped(s, r) ==
    LET data   == r.data
        errors == ValidationErrors(data, post_schema)
    IN  IF errors # {}
        THEN { Outcome(MessageResponse(422, e), s) : e \in errors }
        ELSE LET g == query_get(s, r.id)
             IN  IF data.kind # "object" \/ ~g.found
                 THEN { Outcome(InternalServerError, g.st) }
                 ELSE LET u == [g.st EXCEPT !.rows[r.id] =
                                    [title |-> data.body.str, body |-> data.title.str]]
                          t == session_commit(session_add(u, r.id))
                      IN  { Outcome(Response("object", 202, None,
                                             <<as_dictionary(t, r.id)>>, Some(r.id)), t) }

\* The body of post_put, below its decorators.
post_put_view(s, r) ==
    LET data   == r.data
        errors == ValidationErrors(data, post_schema)
    IN  IF errors # {}
        THEN { Outcome(MessageResponse(422, e), s) : e \in errors }
        ELSE LET g == query_get(s, r.id)
             IN  IF data.kind # "object" \/ ~g.found
                 THEN \* data["body"] raises TypeError, or post is None and
                      \* post.body = ... raises AttributeError
                      { Outcome(InternalServerError, g.st) }
                 ELSE LET u == [g.st EXCEPT !.rows[r.id] =
                                    [title |-> data.title.str, body |-> data.body.str]]
                          t == session_commit(session_add(u, r.id))
                      IN  { Outcome(Response("object", 202, None,
                                             <<as_dictionary(t, r.id)>>, Some(r.id)), t) }

\* PUT /api/posts/<int:id>
post_put(s, r) == accept(s, r, require(s, r, post_put_view(s, r)))

----------------------------------------------------------------------------
(* The requests, and the state machine *)

NoBody == NotObject("null")

Handled(r, o) ==
    /\ req' = r
    /\ resp' = o.resp
    /\ rows' = o.st.rows
    /\ deleted' = o.st.deleted
    /\ committed' = o.st.committed
    /\ nextId' = o.st.nextId
    /\ before' = State

Init ==
    /\ rows = EmptyTable
    /\ deleted = {}
    /\ committed = EmptyTable
    /\ nextId = 1
    /\ req = NoRequest
    /\ resp = NoResponse
    /\ before = [rows |-> EmptyTable, deleted |-> {}, committed |-> EmptyTable, nextId |-> 1]

PostsGet ==
    /\ req = NoRequest
    /\ \E a \in AcceptHeaders, tl \in LikeArgs, cl \in LikeArgs :
         LET r == Request("GET", 0, a, None, NoBody, tl, cl)
         IN  \E o \in posts_get(State, r) : Handled(r, o)

PostGet ==
    /\ req = NoRequest
    /\ \E a \in AcceptHeaders, id \in Ids :
         LET r == Request("GET", id, a, None, NoBody, None, None)
         IN  \E o \in post_get(State, r) : Handled(r, o)

PostDelete ==
    /\ req = NoRequest
    /\ \E a \in AcceptHeaders, id \in Ids :
         LET r == Request("DELETE", id, a, None, NoBody, None, None)
         IN  \E o \in post_delete(State, r) : Handled(r, o)

PostsPost ==
    /\ req = NoRequest
    /\ \E a \in AcceptHeaders, c \in ContentTypes, d \in JsonBodies :
         LET r == Request("POST", 0, a, c, d, None, None)
         IN  \E o \in posts_post(State, r) :
               /\ o.st.nextId <= MaxId + 1
               /\ Handled(r, o)

PostPut ==
    /\ req = NoRequest
    /\ \E a \in AcceptHeaders, c \in ContentTypes, d \in JsonBodies, id \in Ids :
         LET r == Request("PUT", id, a, c, d, None, None)
         IN  \E o \in post_put(State, r) : Handled(r, o)

\* The response is delivered; the server waits for the next request.
Respond ==
    /\ req # NoRequest
    /\ req' = NoRequest
    /\ resp' = NoResponse
    /\ before' = State
    /\ UNCHANGED <<rows, deleted, committed, nextId>>

Next == PostsGet \/ PostGet \/ PostDelete \/ PostsPost \/ PostPut \/ Respond

Spec == Init /\ [][Next]_vars

----------------------------------------------------------------------------
(* Vocabulary of the properties *)

\* The posts of the store: the rows of the table that are not marked deleted
\* (what a query of the session returns).
StoredOf(s) == Restrict(s.rows, DOMAIN s.rows \ s.deleted)
StoredPosts == StoredOf(State)
StoredBefore == StoredOf(before)

\* An Accept pattern that admits application/json, spelled out.
JsonCompatible(p) ==
    p \in { MediaType("application", "json"), MediaType("application", "*"),
            MediaType("*", "*") }

\* An Accept header that is present and names no compatible pattern.
AcceptIncompatible(a) ==
    a # None /\ \A i \in 1..Len(a[1]) : ~JsonCompatible(a[1][i])

\* A Content-Type header that is application/json, whatever its parameters.
ContentTypeIsJson(c) ==
    c # None /\ c[1].type = "application" /\ c[1].subtype = "json"

IsWrite(r) == r.method \in {"POST", "PUT"}

PassesGuards(r) == ~AcceptIncompatible(r.accept) /\ ContentTypeIsJson(r.ctype)

\* A decoded body that is an object with string title and string body.
ValidBody(d) ==
    d.kind = "object" /\ d.title.kind = "string" /\ d.body.kind = "string"

\* A decoded body that is an object and lacks a string title or a string body.
InvalidObject(d) ==
    d.kind = "object" /\ (d.title.kind # "string" \/ d.body.kind # "string")

\* x occurs in t as a contiguous run of characters, compared exactly.
IsSubstring(x, t) ==
    \E i \in 0..(Len(t) - Len(x)) : SubSeq(t, i + 1, i + Len(x)) = x

\* The response a GET /api/posts/<id> with Accept: application/json gets in s.
GetAfter(s, id) ==
    post_get(s, Request("GET", id, Some(<<ApplicationJson>>), None, NoBody, None, None))

Rejected(status) == status \in {406, 415, 422, 404}

Is2xx(status) == status \in 200..299

\* The post of a valid decoded body d, stored under id.
PostOf(d) == [title |-> d.title.str, body |-> d.body.str]
DictOf(id, d) == [id |-> id, title |-> d.title.str, body |-> d.body.str]

----------------------------------------------------------------------------
(* Properties *)

\* C1: a request answered 406, 415, 422 or 404 leaves the stored posts as they
\* were: nothing is added, marked deleted, changed or committed.
C1_RejectedLeavesStore ==
    Rejected(resp.status) =>
        /\ StoredPosts = StoredBefore
        /\ committed = before.committed
        /\ nextId = before.nextId
        /\ deleted \subseteq before.deleted

C1_Witness ==
    /\ Rejected(resp.status)
    /\ IsWrite(req)
    /\ DOMAIN StoredBefore # {}

\* C2: on POST and PUT the first failing check decides, in the order Accept,
\* Content-Type, schema: an incompatible Accept gives 406 whatever the rest; an
\* acceptable Accept with another Content-Type gives 415 whatever the body;
\* 422 is given only when both guards accepted.
C2_GuardOrder ==
    IsWrite(req) =>
        /\ AcceptIncompatible(req.accept) => resp.status = 406
        /\ (~AcceptIncompatible(req.accept) /\ ~ContentTypeIsJson(req.ctype))
              => resp.status = 415
        /\ resp.status = 422 => PassesGuards(req)

C2_Witness ==
    /\ req.method = "POST"
    /\ resp.status = 406
    /\ ~ContentTypeIsJson(req.ctype)
    /\ ~ValidBody(req.data)

\* C3: on every endpoint the request is answered 406, with the message
\* "Request must accept application/json data", exactly when its Accept header
\* is present and holds none of application/json, application/*, */*.
C3_AcceptGuard ==
    req # NoRequest =>
        /\ resp.status = 406 <=> AcceptIncompatible(req.accept)
        /\ resp.status = 406 =>
              resp = MessageResponse(406,
                        Format("Request must accept {} data", "application/json"))

C3_Witness ==
    /\ req.method = "GET"
    /\ req.id = 0
    /\ resp.status = 406

\* C4: a POST or PUT that passes both guards with an object lacking title or
\* body, or holding a non-string for either, is answered 422 with a JSON
\* message, and no post is created or modified.
C4_InvalidBody ==
    (IsWrite(req) /\ PassesGuards(req) /\ InvalidObject(req.data)) =>
        /\ resp.status = 422
        /\ resp.mimetype = "application/json"
        /\ resp.kind = "message"
        /\ resp.message # None
        /\ State = before

C4_Witness ==
    /\ IsWrite(req)
    /\ PassesGuards(req)
    /\ req.data.kind = "object"
    /\ req.data.title.kind = "string"
    /\ req.data.body.kind = "absent"
    /\ resp.status = 422
    /\ DOMAIN StoredBefore # {}

\* C5: a POST that passes the guards with a valid body is answered 201 with a
\* Location of an id n no stored post had, exactly one post is added, and a
\* GET of n that follows is answered 200 with exactly {id: n, title, body}.
C5_CreateThenGet ==
    (req.method = "POST" /\ PassesGuards(req) /\ ValidBody(req.data)) =>
        /\ resp.status = 201
        /\ resp.location # None
        /\ LET n == resp.location[1]
           IN  /\ n \notin DOMAIN before.rows
               /\ DOMAIN StoredPosts = DOMAIN StoredBefore \cup {n}
               /\ \A i \in DOMAIN StoredBefore : StoredPosts[i] = StoredBefore[i]
               /\ StoredPosts[n] = PostOf(req.data)
               /\ resp.posts = <<DictOf(n, req.data)>>
               /\ \A o \in GetAfter(State, n) :
                     /\ o.resp.status = 200
                     /\ o.resp.posts = <<DictOf(n, req.data)>>

C5_Witness ==
    /\ req.method = "POST"
    /\ resp.status = 201
    /\ DOMAIN StoredBefore # {}

\* C6: a DELETE with an acceptable Accept header of a stored id is answered
\* 200 "Deleted post with id <id>" and removes exactly that post, so that a GET
\* of the id that follows is answered 404 and the other posts are unchanged; of
\* an id that is not stored it is answered 404 "Could not find post with id <id>".
C6_DeleteRemoves ==
    (req.method = "DELETE" /\ ~AcceptIncompatible(req.accept)) =>
        IF req.id \in DOMAIN StoredBefore
        THEN /\ resp = MessageResponse(200,
                          Format("Deleted post with id {}", ToString(req.id)))
             /\ StoredPosts = Restrict(StoredBefore, DOMAIN StoredBefore \ {req.id})
             /\ \A o \in GetAfter(State, req.id) : o.resp.status = 404
        ELSE resp = MessageResponse(404,
                       Format("Could not find post with id {}", ToString(req.id)))

\* C7: a GET of the list with an acceptable Accept header is answered 200 with
\* exactly the stored posts whose title contains title_like (when given) and
\* whose body contains content_like (when given), as exact substrings, in
\* ascending order of id, none left out and none twice.
C7_ListFilters ==
    (req.method = "GET" /\ req.id = 0 /\ ~AcceptIncompatible(req.accept)) =>
        LET wanted == { i \in DOMAIN StoredBefore :
                          /\ req.title_like # None
                                => IsSubstring(req.title_like[1], StoredBefore[i].title)
                          /\ req.content_like # None
                                => IsSubstring(req.content_like[1], StoredBefore[i].body) }
        IN  /\ resp.status = 200
            /\ resp.kind = "array"
            /\ Len(resp.posts) = Cardinality(wanted)
            /\ \A k \in 1..Len(resp.posts) :
                  /\ resp.posts[k].id \in wanted
                  /\ resp.posts[k].title = StoredBefore[resp.posts[k].id].title
                  /\ resp.posts[k].body = StoredBefore[resp.posts[k].id].body
                  /\ \A j \in 1..(k - 1) : resp.posts[j].id < resp.posts[k].id

\* C8: every response has Content-Type application/json, and every response
\* that is not a success has a body {"message": <string>}.
C8_AlwaysJson ==
    req # NoRequest =>
        /\ resp.mimetype = "application/json"
        /\ ~Is2xx(resp.status) => (resp.kind = "message" /\ resp.message # None)

\* C9: a PUT that passes both guards and validation for a stored id is answered
\* 202 with a Location of that id; afterwards that post has exactly the
\* request's title and body under the same id, and the number of posts and
\* every other post are unchanged.
C9_UpdateInPlace ==
    (/\ req.method = "PUT" /\ PassesGuards(req) /\ ValidBody(req.data)
     /\ req.id \in DOMAIN StoredBefore) =>
        /\ resp.status = 202
        /\ resp.location = Some(req.id)
        /\ resp.posts = <<DictOf(req.id, req.data)>>
        /\ DOMAIN StoredPosts = DOMAIN StoredBefore
        /\ StoredPosts[req.id] = PostOf(req.data)
        /\ \A i \in DOMAIN StoredBefore \ {req.id} : StoredPosts[i] = StoredBefore[i]

C9_Witness ==
    /\ req.method = "PUT"
    /\ resp.status = 202
    /\ req.id \in DOMAIN StoredBefore
    /\ Cardinality(DOMAIN StoredBefore) = 2
    /\ StoredBefore[req.id] # PostOf(req.data)

\* C10: a PUT with a valid body for an id that is not stored creates no post
\* and changes none: the store is as before and the answer is not a 2xx.
C10_PutMissing ==
    (/\ req.method = "PUT" /\ PassesGuards(req) /\ ValidBody(req.data)
     /\ req.id \notin DOMAIN StoredBefore) =>
        /\ ~Is2xx(resp.status)
        /\ StoredPosts = StoredBefore
        /\ committed = before.committed

====
